---- MODULE Spec2Model ----
(***************************************************************************)
(* Cashflow tracker: the ledger (accounts and their balances), the three   *)
(* transaction recorders (income, expense, transfer) and the obligation    *)
(* tracker (receivables, payables), as implemented by DatabaseStorage and  *)
(* the express routes of registerRoutes.                                   *)
(*                                                                         *)
(* Money is held in whole cents: a decimal(10,2) column value "12450.23"   *)
(* is the integer 1245023.  A JavaScript number produced by parseFloat is  *)
(* held in tenths of a cent, so that toFixed(2) is a real rounding step.   *)
(* Every await on the store is one step of a request; two requests may     *)
(* interleave between any two of their store calls.                        *)
(***************************************************************************)
EXTENDS Integers, Sequences, FiniteSets, TLC

VARIABLES
    accounts,             \* accounts table: id (serial, = index) -> [balance]
    incomeTransactions,   \* income_transactions table, in insertion order
    expenseTransactions,  \* expense_transactions table, in insertion order
    transferTransactions, \* transfer_transactions table, in insertion order
    receivables,          \* receivables table: id -> [status]
    payables,             \* payables table: id -> [status]
    req,                  \* per request slot: the handler's position and locals
                          \* (n numbers the requests, counting down)
    remaining,            \* number of requests that may still arrive
    initialBalance,       \* history: balance each account was created with
    pre,                  \* history: per slot, the balances when its request began
    missingRef,           \* history: some persisted transaction named an absent account
    now,                  \* the store's clock (the value of now() / defaultNow())
    reply                 \* the body of the answer to the last read (GET) request

vars == <<accounts, incomeTransactions, expenseTransactions, transferTransactions,
          receivables, payables, req, remaining, initialBalance, pre, missingRef,
          now, reply>>

ledgerVars == <<accounts, incomeTransactions, expenseTransactions,
                transferTransactions, initialBalance, missingRef>>

obligationVars == <<receivables, payables>>

---------------------------------------------------------------------------
(* Bounds *)

\* requests that may arrive when requests interleave
MaxRequests == 2
\* requests that may arrive when they run one at a time
MaxSeqRequests == 3
\* requests that may arrive at the receivable/payable routes
MaxOblRequests == 3
\* requests that may arrive when ledger and receivable/payable routes mix
MaxMixRequests == 2
\* requests that may arrive on top of a store that already holds records
MaxFeedRequests == 1
\* requests that may arrive on top of a store that holds dated records
MaxMonthRequests == 1
\* most expense records in a store that holds dated records
MaxStoredExpenses == 8
\* requests that may arrive from the account, income and expense forms
MaxFormRequests == 3
\* requests that may arrive when store calls may fail
MaxFailRequests == 2
\* requests that may arrive when every route is in use
MaxAllRequests == 2
\* later startups and account creations that may follow the first startup
MaxSeedEvents == 3
\* times the store's clock may advance between requests
MaxTicks == 1
\* most records per table in a store that already holds records
MaxStored == 6

\* request slots: at most two handlers are in flight at once
Procs == {1, 2}

---------------------------------------------------------------------------
(* Values *)

\* a JavaScript undefined / a field absent from the request body; as a number
\* of cents it lies beyond every amount and balance the bounds allow
undefined == 2000000000

\* an absent status field in a request body
absent == "<absent>"

\* the demo accounts' balances, in cents
DefaultAccounts == <<1245023, 2580050, 832075, 368000, 1523045>>

\* account ids a request body may carry: two demo accounts and the id the
\* next created account will get
AccountIdInputs == {3, 4, Len(DefaultAccounts) + 1}

\* amounts a request body may carry, in cents (or no amount at all)
AmountInputs == {-2000, 400000, undefined}

\* account numbers a request body may carry, as character sequences
AccountNumberInputs == { <<"1", "2", "-", "3">>, <<"1", "2", " ", "3", "4">> }

\* the date a form submits by default, as a character sequence (YYYY-MM-DD)
Today == <<"2", "0", "2", "6", "-", "1", "1", "-", "0", "4">>

\* status values a request body may carry
StatusInputs == {"pending", "paid", "overdue", "bogus", absent}

\* receivable / payable ids a PATCH may name
ObligationIdInputs == {1, 2}

---------------------------------------------------------------------------
(* Pure helpers *)

\* mutation: parseInt in place of parseFloat drops the cents
ParseInt(cents) == (cents \div 100) * 1000

\* parseFloat of a two-fraction-digit decimal string: cents -> tenths of a cent
ParseFloat(cents) == cents * 10

RoundHalfUp(u) == (u + 5) \div 10

\* Number.prototype.toFixed(2): tenths of a cent -> cents, nearest, sign kept
ToFixed2(v) == IF v < 0 THEN 0 - RoundHalfUp(0 - v) ELSE RoundHalfUp(v)

\* storage.getAccount: the balance of the row, or undefined
GetAccount(id) == IF id \in DOMAIN accounts THEN accounts[id].balance ELSE undefined

\* mutation: the UPDATE lost its WHERE clause and writes every row
UpdateAccountBalanceAllRows(id, balance) ==
    [i \in DOMAIN accounts |-> [accounts[i] EXCEPT !.balance = balance]]

\* storage.updateAccountBalance: UPDATE ... WHERE id = id (no row: no change)
UpdateAccountBalance(id, balance) ==
    IF id \in DOMAIN accounts
    THEN [accounts EXCEPT ![id] = [@ EXCEPT !.balance = balance]]
    ELSE accounts

Balances == [i \in DOMAIN accounts |-> accounts[i].balance]

\* createIncome: (parseFloat(account.balance) + parseFloat(amount)).toFixed(2)
IncomeNewBalance(balance, amount) == ToFixed2(ParseFloat(balance) + ParseFloat(amount))

\* mutation: the expense is added, as in createIncome
ExpenseNewBalanceAdds(balance, amount) == ToFixed2(ParseFloat(balance) + ParseFloat(amount))

\* mutation: a sufficient-funds clamp keeps the balance at or above zero
ExpenseNewBalanceClamped(balance, amount) ==
    IF ParseFloat(balance) - ParseFloat(amount) < 0
    THEN 0
    ELSE ToFixed2(ParseFloat(balance) - ParseFloat(amount))

\* createExpense: (parseFloat(account.balance) - parseFloat(amount)).toFixed(2)
ExpenseNewBalance(balance, amount) == ToFixed2(ParseFloat(balance) - ParseFloat(amount))

\* createTransfer: (parseFloat(fromAccount.balance) - parseFloat(amount)).toFixed(2)
TransferFromNewBalance(balance, amount) == ToFixed2(ParseFloat(balance) - ParseFloat(amount))

\* mutation: the credit is computed like the debit
TransferToNewBalanceSubtracts(balance, amount) == ToFixed2(ParseFloat(balance) - ParseFloat(amount))

\* createTransfer: (parseFloat(toAccount.balance) + parseFloat(amount)).toFixed(2)
TransferToNewBalance(balance, amount) == ToFixed2(ParseFloat(balance) + ParseFloat(amount))

\* mutation: the same-account check is gone
SameAccountNever(body) == FALSE

\* POST /api/transfers: validatedData.fromAccountId === validatedData.toAccountId
SameAccount(body) == body.fromAccountId = body.toAccountId

\* the status values the PATCH routes accept
ValidStatuses == {"pending", "paid", "overdue"}

\* mutation: only the presence of a status is checked
IsValidStatusPresent(status) == status # absent

\* PATCH .../status: ["pending", "paid", "overdue"].includes(status)
IsValidStatus(status) == status \in ValidStatuses

\* the status column: NOT NULL DEFAULT 'pending'
StatusColumn(body) == IF body.status = absent THEN "pending" ELSE body.status

\* mutation: the update became an upsert
UpdateStatusUpsert(table, id, status) ==
    IF id \in DOMAIN table
    THEN [table EXCEPT ![id] = [@ EXCEPT !.status = status]]
    ELSE Append(table, [status |-> status])

\* mutation: a paid record is never updated again
UpdateStatusPaidIsFinal(table, id, status) ==
    IF id \in DOMAIN table /\ table[id].status # "paid"
    THEN [table EXCEPT ![id] = [@ EXCEPT !.status = status]]
    ELSE table

\* storage.updateReceivableStatus / updatePayableStatus:
\* UPDATE ... SET status WHERE id = id (no row: no change)
UpdateStatus(table, id, status) ==
    IF id \in DOMAIN table
    THEN [table EXCEPT ![id] = [@ EXCEPT !.status = status]]
    ELSE table

\* the status of record id when a request names it (history), if it exists
StatusOf(table, id) == IF id \in DOMAIN table THEN table[id].status ELSE absent

IdleReq == [pc |-> "idle", kind |-> "none", amount |-> 0, accountId |-> 0,
            toAccountId |-> 0, account |-> undefined, toAccount |-> undefined,
            id |-> 0, status |-> absent, accountNumber |-> <<>>,
            res |-> 0, n |-> 0, threw |-> "none", records |-> 0, was |-> absent]

\* the response is sent and the handler's reads go out of scope
Done(r, code) == [r EXCEPT !.pc = "done", !.res = code,
                           !.account = undefined, !.toAccount = undefined]

\* a body that failed schema.parse: validatedData was never bound
Unparsed(kind) == [IdleReq EXCEPT !.kind = kind, !.amount = undefined]

InFlight(p) == req[p].pc \notin {"idle", "done"}

\* a request arrives and takes the lowest free slot
CanStart(p) ==
    /\ ~InFlight(p)
    /\ remaining > 0
    /\ \A q \in Procs : q < p => InFlight(q)

\* the transaction records persisted so far
RecordCount ==
    Len(incomeTransactions) + Len(expenseTransactions) + Len(transferTransactions)

\* no read request has been answered since the store last changed
NoReply == [kind |-> "none"]

\* a request that may write arrives: the answer of an earlier read no
\* longer tells the store's state
Begin(p, r) ==
    /\ req' = [req EXCEPT ![p] = [r EXCEPT !.n = remaining, !.records = RecordCount]]
    /\ pre' = [pre EXCEPT ![p] = Balances]
    /\ remaining' = remaining - 1
    /\ reply' = NoReply
    /\ UNCHANGED now

---------------------------------------------------------------------------
(* Initial state: the store after the first startup seeded the demo accounts *)

Init ==
    /\ accounts = [i \in 1..Len(DefaultAccounts) |-> [balance |-> DefaultAccounts[i]]]
    /\ incomeTransactions = <<>>
    /\ expenseTransactions = <<>>
    /\ transferTransactions = <<>>
    /\ receivables = <<>>
    /\ payables = <<>>
    /\ req = [p \in Procs |-> IdleReq]
    /\ remaining = MaxRequests
    /\ initialBalance = DefaultAccounts
    /\ pre = [p \in Procs |-> DefaultAccounts]
    /\ missingRef = FALSE
    /\ now = 0
    /\ reply = NoReply

---------------------------------------------------------------------------
(* Request validation (the zod insert schemas) *)

\* insertIncomeSchema / insertExpenseSchema: amount is a required field
insertIncomeSchema(body) == body.amount # undefined

insertExpenseSchema(body) == body.amount # undefined

\* insertTransferSchema: amount is a required field
insertTransferSchema(body) == body.amount # undefined

\* insertAccountSchema: the account number, without whitespace and hyphens,
\* has at least 4 characters
cleanAccountNumber(accountNumber) ==
    SelectSeq(accountNumber, LAMBDA c : c \notin {" ", "-"})

insertAccountSchema(body) == Len(cleanAccountNumber(body.accountNumber)) >= 4

\* insertReceivableSchema / insertPayableSchema: status is an optional string
insertReceivableSchema(body) == TRUE

insertPayableSchema(body) == TRUE

---------------------------------------------------------------------------
(* POST /api/accounts *)

\* insertAccountSchema.parse: the schema omits balance, and zod drops the
\* keys a schema does not know
ParseAccount(body) == [accountNumber |-> body.accountNumber, balance |-> undefined]

\* the balance column: NOT NULL DEFAULT '0'
BalanceColumn(values) == IF values.balance = undefined THEN 0 ELSE values.balance

\* mutation: the INSERT became an upsert on the newest row
PostAccountWithOverwrites(p, accountNumbers, balances) ==
    \E accountNumber \in accountNumbers, balance \in balances :
        LET body == [accountNumber |-> accountNumber, balance |-> balance]
            r == [IdleReq EXCEPT !.kind = "account", !.amount = balance,
                                 !.accountNumber = accountNumber]
        IN
        /\ CanStart(p)
        /\ IF insertAccountSchema(body)
           THEN LET validatedData == ParseAccount(body) IN
                /\ accounts' = [accounts EXCEPT ![Len(accounts)] =
                                   [balance |-> BalanceColumn(validatedData)]]
                /\ UNCHANGED initialBalance
                /\ Begin(p, Done([r EXCEPT !.id = Len(accounts)], 201))
           ELSE /\ UNCHANGED <<accounts, initialBalance>>
                /\ Begin(p, Done(r, 400))
        /\ UNCHANGED <<incomeTransactions, expenseTransactions, transferTransactions,
                       missingRef, obligationVars>>

\* parse the body, then the INSERT of createAccount; req keeps req.body
PostAccountWith(p, accountNumbers, balances) ==
    \E accountNumber \in accountNumbers, balance \in balances :
        LET body == [accountNumber |-> accountNumber, balance |-> balance]
            r == [IdleReq EXCEPT !.kind = "account", !.amount = balance,
                                 !.accountNumber = accountNumber]
        IN
        /\ CanStart(p)
        /\ IF insertAccountSchema(body)
           THEN LET validatedData == ParseAccount(body) IN
                /\ accounts' = Append(accounts, [balance |-> BalanceColumn(validatedData)])
                /\ initialBalance' = Append(initialBalance, BalanceColumn(validatedData))
                /\ Begin(p, Done([r EXCEPT !.id = Len(accounts) + 1], 201))
           ELSE /\ UNCHANGED <<accounts, initialBalance>>
                /\ Begin(p, Done(r, 400))
        /\ UNCHANGED <<incomeTransactions, expenseTransactions, transferTransactions,
                       missingRef, obligationVars>>

PostAccount(p) == PostAccountWith(p, AccountNumberInputs, {undefined})

---------------------------------------------------------------------------
(* POST /api/income and DatabaseStorage.createIncome *)

\* parse the body, then the INSERT of createIncome
PostIncomeWith(p, amounts, accountIds, dates, sources) ==
    \E amount \in amounts, accountId \in accountIds, date \in dates,
       source \in sources :
        LET body == [amount |-> amount, accountId |-> accountId, date |-> date,
                     source |-> source]
            r == [IdleReq EXCEPT !.kind = "income", !.amount = amount,
                                 !.accountId = accountId]
        IN
        /\ CanStart(p)
        /\ IF insertIncomeSchema(body)
           THEN /\ incomeTransactions' =
                     Append(incomeTransactions,
                            [amount |-> body.amount, accountId |-> body.accountId,
                             date |-> body.date, source |-> body.source,
                             createdAt |-> now])
                /\ missingRef' = (missingRef \/ accountId \notin DOMAIN accounts)
                /\ Begin(p, [r EXCEPT !.pc = "getAccount"])
           ELSE /\ UNCHANGED <<incomeTransactions, missingRef>>
                /\ Begin(p, Done(Unparsed("income"), 400))
        /\ UNCHANGED <<accounts, expenseTransactions, transferTransactions,
                       initialBalance, obligationVars>>

PostIncome(p) == PostIncomeWith(p, AmountInputs, AccountIdInputs, {Today}, {"salary"})

\* mutation: a missing account makes createIncome throw, which the route
\* answers with 400
CreateIncomeGetAccountThrows(p) ==
    /\ req[p].kind = "income" /\ req[p].pc = "getAccount"
    /\ LET account == GetAccount(req[p].accountId) IN
       req' = [req EXCEPT ![p] =
                 IF account # undefined
                 THEN [@ EXCEPT !.pc = "update", !.account = account]
                 ELSE Done(@, 400)]
    /\ UNCHANGED <<ledgerVars, obligationVars, remaining, pre, now, reply>>

\* const account = await this.getAccount(insertIncome.accountId)
CreateIncomeGetAccount(p) ==
    /\ req[p].kind = "income" /\ req[p].pc = "getAccount"
    /\ LET account == GetAccount(req[p].accountId) IN
       req' = [req EXCEPT ![p] =
                 IF account # undefined
                 THEN [@ EXCEPT !.pc = "update", !.account = account]
                 ELSE Done(@, 201)]
    /\ UNCHANGED <<ledgerVars, obligationVars, remaining, pre, now, reply>>

\* newBalance = (parseFloat(balance) + parseFloat(amount)).toFixed(2); write it
CreateIncomeUpdate(p) ==
    /\ req[p].kind = "income" /\ req[p].pc = "update"
    /\ LET newBalance == IncomeNewBalance(req[p].account, req[p].amount) IN
       accounts' = UpdateAccountBalance(req[p].accountId, newBalance)
    /\ req' = [req EXCEPT ![p] = Done(@, 201)]
    /\ UNCHANGED <<incomeTransactions, expenseTransactions, transferTransactions,
                   initialBalance, missingRef, obligationVars, remaining, pre, now, reply>>

---------------------------------------------------------------------------
(* POST /api/expenses and DatabaseStorage.createExpense *)

PostExpenseWith(p, amounts, accountIds, dates, categories) ==
    \E amount \in amounts, accountId \in accountIds, date \in dates,
       category \in categories :
        LET body == [amount |-> amount, accountId |-> accountId, date |-> date,
                     category |-> category]
            r == [IdleReq EXCEPT !.kind = "expense", !.amount = amount,
                                 !.accountId = accountId]
        IN
        /\ CanStart(p)
        /\ IF insertExpenseSchema(body)
           THEN /\ expenseTransactions' =
                     Append(expenseTransactions,
                            [amount |-> body.amount, accountId |-> body.accountId,
                             date |-> body.date, category |-> body.category,
                             createdAt |-> now])
                /\ missingRef' = (missingRef \/ accountId \notin DOMAIN accounts)
                /\ Begin(p, [r EXCEPT !.pc = "getAccount"])
           ELSE /\ UNCHANGED <<expenseTransactions, missingRef>>
                /\ Begin(p, Done(Unparsed("expense"), 400))
        /\ UNCHANGED <<accounts, incomeTransactions, transferTransactions,
                       initialBalance, obligationVars>>

PostExpense(p) == PostExpenseWith(p, AmountInputs, AccountIdInputs, {Today}, {"food"})

CreateExpenseGetAccount(p) ==
    /\ req[p].kind = "expense" /\ req[p].pc = "getAccount"
    /\ LET account == GetAccount(req[p].accountId) IN
       req' = [req EXCEPT ![p] =
                 IF account # undefined
                 THEN [@ EXCEPT !.pc = "update", !.account = account]
                 ELSE Done(@, 201)]
    /\ UNCHANGED <<ledgerVars, obligationVars, remaining, pre, now, reply>>

\* newBalance = (parseFloat(balance) - parseFloat(amount)).toFixed(2); write it
CreateExpenseUpdate(p) ==
    /\ req[p].kind = "expense" /\ req[p].pc = "update"
    /\ LET newBalance == ExpenseNewBalance(req[p].account, req[p].amount) IN
       accounts' = UpdateAccountBalance(req[p].accountId, newBalance)
    /\ req' = [req EXCEPT ![p] = Done(@, 201)]
    /\ UNCHANGED <<incomeTransactions, expenseTransactions, transferTransactions,
                   initialBalance, missingRef, obligationVars, remaining, pre, now, reply>>

---------------------------------------------------------------------------
(* POST /api/transfers and DatabaseStorage.createTransfer *)

\* parse the body, reject a transfer to the same account, then the INSERT
PostTransferWith(p, amounts, accountIds, dates) ==
    \E amount \in amounts, fromAccountId \in accountIds,
       toAccountId \in accountIds, date \in dates :
        LET body == [amount |-> amount, fromAccountId |-> fromAccountId,
                     toAccountId |-> toAccountId, date |-> date]
            r == [IdleReq EXCEPT !.kind = "transfer", !.amount = amount,
                                 !.accountId = fromAccountId,
                                 !.toAccountId = toAccountId]
        IN
        /\ CanStart(p)
        /\ IF ~insertTransferSchema(body)
           THEN /\ UNCHANGED <<transferTransactions, missingRef>>
                /\ Begin(p, Done(Unparsed("transfer"), 400))
           ELSE IF SameAccount(body)
           THEN /\ UNCHANGED <<transferTransactions, missingRef>>
                /\ Begin(p, Done(r, 400))
           ELSE /\ transferTransactions' =
                     Append(transferTransactions,
                            [amount |-> body.amount,
                             fromAccountId |-> body.fromAccountId,
                             toAccountId |-> body.toAccountId,
                             date |-> body.date, createdAt |-> now])
                /\ missingRef' = (missingRef \/ fromAccountId \notin DOMAIN accounts
                                             \/ toAccountId \notin DOMAIN accounts)
                /\ Begin(p, [r EXCEPT !.pc = "getFromAccount"])
        /\ UNCHANGED <<accounts, incomeTransactions, expenseTransactions,
                       initialBalance, obligationVars>>

PostTransfer(p) == PostTransferWith(p, AmountInputs, AccountIdInputs, {Today})

\* const fromAccount = await this.getAccount(insertTransfer.fromAccountId)
CreateTransferGetFromAccount(p) ==
    /\ req[p].kind = "transfer" /\ req[p].pc = "getFromAccount"
    /\ req' = [req EXCEPT ![p] = [@ EXCEPT !.pc = "getToAccount",
                                           !.account = GetAccount(req[p].accountId)]]
    /\ UNCHANGED <<ledgerVars, obligationVars, remaining, pre, now, reply>>

\* mutation: the credit is written before the debit, which is then skipped
CreateTransferGetToAccountCreditFirst(p) ==
    /\ req[p].kind = "transfer" /\ req[p].pc = "getToAccount"
    /\ LET toAccount == GetAccount(req[p].toAccountId) IN
       req' = [req EXCEPT ![p] =
                 IF toAccount # undefined
                 THEN [@ EXCEPT !.pc = "updateTo", !.toAccount = toAccount]
                 ELSE IF req[p].account # undefined
                 THEN [@ EXCEPT !.pc = "updateFrom", !.toAccount = toAccount]
                 ELSE Done(@, 201)]
    /\ UNCHANGED <<ledgerVars, obligationVars, remaining, pre, now, reply>>

\* mutation: balances are written only when both accounts exist
CreateTransferGetToAccountNeedsBoth(p) ==
    /\ req[p].kind = "transfer" /\ req[p].pc = "getToAccount"
    /\ LET toAccount == GetAccount(req[p].toAccountId) IN
       req' = [req EXCEPT ![p] =
                 IF req[p].account # undefined /\ toAccount # undefined
                 THEN [@ EXCEPT !.pc = "updateFrom", !.toAccount = toAccount]
                 ELSE Done(@, 201)]
    /\ UNCHANGED <<ledgerVars, obligationVars, remaining, pre, now, reply>>

\* const toAccount = await this.getAccount(insertTransfer.toAccountId)
CreateTransferGetToAccount(p) ==
    /\ req[p].kind = "transfer" /\ req[p].pc = "getToAccount"
    /\ LET toAccount == GetAccount(req[p].toAccountId) IN
       req' = [req EXCEPT ![p] =
                 IF req[p].account # undefined
                 THEN [@ EXCEPT !.pc = "updateFrom", !.toAccount = toAccount]
                 ELSE IF toAccount # undefined
                 THEN [@ EXCEPT !.pc = "updateTo", !.toAccount = toAccount]
                 ELSE Done(@, 201)]
    /\ UNCHANGED <<ledgerVars, obligationVars, remaining, pre, now, reply>>

\* if (fromAccount): write fromAccount.balance - amount
CreateTransferUpdateFrom(p) ==
    /\ req[p].kind = "transfer" /\ req[p].pc = "updateFrom"
    /\ LET newBalance == TransferFromNewBalance(req[p].account, req[p].amount) IN
       accounts' = UpdateAccountBalance(req[p].accountId, newBalance)
    /\ req' = [req EXCEPT ![p] =
                 IF req[p].toAccount # undefined
                 THEN [@ EXCEPT !.pc = "updateTo"]
                 ELSE Done(@, 201)]
    /\ UNCHANGED <<incomeTransactions, expenseTransactions, transferTransactions,
                   initialBalance, missingRef, obligationVars, remaining, pre, now, reply>>

\* if (toAccount): write toAccount.balance + amount
CreateTransferUpdateTo(p) ==
    /\ req[p].kind = "transfer" /\ req[p].pc = "updateTo"
    /\ LET newBalance == TransferToNewBalance(req[p].toAccount, req[p].amount) IN
       accounts' = UpdateAccountBalance(req[p].toAccountId, newBalance)
    /\ req' = [req EXCEPT ![p] = Done(@, 201)]
    /\ UNCHANGED <<incomeTransactions, expenseTransactions, transferTransactions,
                   initialBalance, missingRef, obligationVars, remaining, pre, now, reply>>

---------------------------------------------------------------------------
(* POST /api/receivables, PATCH /api/receivables/:id/status *)

\* mutation: creating a receivable also books it on an account
PostReceivableCreditsAccount(p) ==
    \E status \in StatusInputs :
        LET body == [status |-> status]
            r == [IdleReq EXCEPT !.kind = "receivable", !.status = status]
        IN
        /\ CanStart(p)
        /\ receivables' = Append(receivables, [status |-> StatusColumn(body)])
        /\ accounts' = UpdateAccountBalance(3, accounts[3].balance + 400000)
        /\ Begin(p, Done([r EXCEPT !.id = Len(receivables) + 1], 201))
        /\ UNCHANGED <<payables, incomeTransactions, expenseTransactions,
                       transferTransactions, initialBalance, missingRef>>

\* parse the body, then the INSERT of createReceivable
PostReceivable(p) ==
    \E status \in StatusInputs :
        LET body == [status |-> status]
            r == [IdleReq EXCEPT !.kind = "receivable", !.status = status]
        IN
        /\ CanStart(p)
        /\ IF insertReceivableSchema(body)
           THEN /\ receivables' = Append(receivables, [status |-> StatusColumn(body)])
                /\ Begin(p, Done([r EXCEPT !.id = Len(receivables) + 1], 201))
           ELSE /\ UNCHANGED receivables
                /\ Begin(p, Done(r, 400))
        /\ UNCHANGED <<payables, ledgerVars>>

\* check the status, then the UPDATE of updateReceivableStatus
PatchReceivableStatus(p) ==
    \E id \in ObligationIdInputs, status \in StatusInputs :
        LET r == [IdleReq EXCEPT !.kind = "receivableStatus", !.id = id,
                                 !.status = status,
                                 !.was = StatusOf(receivables, id)]
        IN
        /\ CanStart(p)
        /\ IF ~IsValidStatus(status)
           THEN /\ UNCHANGED receivables
                /\ Begin(p, Done(r, 400))
           ELSE /\ receivables' = UpdateStatus(receivables, id, status)
                /\ Begin(p, Done(r, IF id \in DOMAIN receivables THEN 200 ELSE 404))
        /\ UNCHANGED <<payables, ledgerVars>>

---------------------------------------------------------------------------
(* POST /api/payables, PATCH /api/payables/:id/status *)

PostPayable(p) ==
    \E status \in StatusInputs :
        LET body == [status |-> status]
            r == [IdleReq EXCEPT !.kind = "payable", !.status = status]
        IN
        /\ CanStart(p)
        /\ IF insertPayableSchema(body)
           THEN /\ payables' = Append(payables, [status |-> StatusColumn(body)])
                /\ Begin(p, Done([r EXCEPT !.id = Len(payables) + 1], 201))
           ELSE /\ UNCHANGED payables
                /\ Begin(p, Done(r, 400))
        /\ UNCHANGED <<receivables, ledgerVars>>

PatchPayableStatus(p) ==
    \E id \in ObligationIdInputs, status \in StatusInputs :
        LET r == [IdleReq EXCEPT !.kind = "payableStatus", !.id = id,
                                 !.status = status,
                                 !.was = StatusOf(payables, id)]
        IN
        /\ CanStart(p)
        /\ IF ~IsValidStatus(status)
           THEN /\ UNCHANGED payables
                /\ Begin(p, Done(r, 400))
           ELSE /\ payables' = UpdateStatus(payables, id, status)
                /\ Begin(p, Done(r, IF id \in DOMAIN payables THEN 200 ELSE 404))
        /\ UNCHANGED <<receivables, ledgerVars>>

---------------------------------------------------------------------------
(* Specifications *)

LedgerStep(p) ==
    \/ PostAccount(p)
    \/ PostIncome(p)
    \/ CreateIncomeGetAccount(p)
    \/ CreateIncomeUpdate(p)
    \/ PostExpense(p)
    \/ CreateExpenseGetAccount(p)
    \/ CreateExpenseUpdate(p)
    \/ PostTransfer(p)
    \/ CreateTransferGetFromAccount(p)
    \/ CreateTransferGetToAccount(p)
    \/ CreateTransferUpdateFrom(p)
    \/ CreateTransferUpdateTo(p)

\* requests to the ledger routes, interleaving at every store call
Next == \E p \in Procs : LedgerStep(p)

Spec == Init /\ [][Next]_vars

\* requests to the ledger routes, one at a time
InitSeq == Init!1 /\ Init!2 /\ Init!3 /\ Init!4 /\ Init!5 /\ Init!6 /\ Init!7
           /\ remaining = MaxSeqRequests
           /\ Init!9 /\ Init!10 /\ Init!11 /\ Init!12 /\ Init!13

NextSeq == LedgerStep(1)

SpecSeq == InitSeq /\ [][NextSeq]_vars

\* requests to the receivable and payable routes (each is one store call)
InitObl == Init!1 /\ Init!2 /\ Init!3 /\ Init!4 /\ Init!5 /\ Init!6 /\ Init!7
           /\ remaining = MaxOblRequests
           /\ Init!9 /\ Init!10 /\ Init!11 /\ Init!12 /\ Init!13

NextObl ==
    \/ PostReceivable(1)
    \/ PatchReceivableStatus(1)
    \/ PostPayable(1)
    \/ PatchPayableStatus(1)

SpecObl == InitObl /\ [][NextObl]_vars

\* requests to the ledger routes and to the receivable and payable routes,
\* one at a time
InitMix == Init!1 /\ Init!2 /\ Init!3 /\ Init!4 /\ Init!5 /\ Init!6 /\ Init!7
           /\ remaining = MaxMixRequests
           /\ Init!9 /\ Init!10 /\ Init!11 /\ Init!12 /\ Init!13

NextMix ==
    \/ LedgerStep(1)
    \/ PostReceivable(1)
    \/ PatchReceivableStatus(1)
    \/ PostPayable(1)
    \/ PatchPayableStatus(1)

SpecMix == InitMix /\ [][NextMix]_vars

---------------------------------------------------------------------------
(* GET /api/dashboard/recent-transactions *)

\* income.slice(0, 5), expenses.slice(0, 5), transfers.slice(0, 5)
PerTypeLimit == 5

\* .slice(0, 10)
RecentLimit == 10

Min(a, b) == IF a < b THEN a ELSE b

\* Array.prototype.slice(0, n)
Slice(s, n) == SubSeq(s, 1, Min(n, Len(s)))

\* orderBy(desc(createdAt)): every order of the rows (each with its id) in
\* which createdAt never increases; the store may return equal timestamps
\* in any order
RECURSIVE DescOrders(_, _)
DescOrders(table, ids) ==
    IF ids = {} THEN { <<>> }
    ELSE UNION { { <<table[i]>> \o rest :
                      rest \in DescOrders(table, ids \ {i}) } :
                 i \in { i \in ids :
                            \A j \in ids : table[i].createdAt >= table[j].createdAt } }

\* the rows of a table, each with its id
WithId(table) == [i \in DOMAIN table |-> [id |-> i] @@ table[i]]

\* storage.getIncomeTransactions / getExpenseTransactions / getTransferTransactions
GetTransactions(table) == DescOrders(WithId(table), DOMAIN table)

\* the names of the demo accounts
DefaultAccountNames ==
    <<"Chase Checking", "Chase Savings", "Wells Fargo", "Capital One", "Bank of America">>

\* the name column of account id; an account made by POST /api/accounts
\* has the name its request gave, which stands here as one name
NameColumn(id) ==
    IF id \in DOMAIN DefaultAccountNames THEN DefaultAccountNames[id] ELSE "New Account"

\* accountMap.get(id)?.name
AccountName(id) == IF id \in DOMAIN accounts THEN NameColumn(id) ELSE absent

\* new Date(date).getTime(), on a YYYY-MM-DD string: grows with the date
RECURSIVE DateNumber(_, _)
DateNumber(date, acc) ==
    IF date = <<>> THEN acc
    ELSE LET c == Head(date)
             d == CASE c = "0" -> 0 [] c = "1" -> 1 [] c = "2" -> 2 [] c = "3" -> 3
                    [] c = "4" -> 4 [] c = "5" -> 5 [] c = "6" -> 6 [] c = "7" -> 7
                    [] c = "8" -> 8 [] c = "9" -> 9 [] OTHER -> 10
         IN  DateNumber(Tail(date), IF d = 10 THEN acc ELSE acc * 10 + d)

\* new Date(t.createdAt || t.date).getTime()
Timestamp(t) == IF t.createdAt # undefined THEN t.createdAt ELSE DateNumber(t.date, 0)

\* { ...t, type: 'income', account: ... }; a key the entry does not have
\* reads as absent (ids as undefined)
IncomeEntry(t) == [type |-> "income", id |-> t.id, date |-> t.date,
                   createdAt |-> t.createdAt, accountId |-> t.accountId,
                   fromAccountId |-> undefined, toAccountId |-> undefined,
                   account |-> AccountName(t.accountId),
                   fromAccount |-> absent, toAccount |-> absent]

ExpenseEntry(t) == [type |-> "expense", id |-> t.id, date |-> t.date,
                    createdAt |-> t.createdAt, accountId |-> t.accountId,
                    fromAccountId |-> undefined, toAccountId |-> undefined,
                    account |-> AccountName(t.accountId),
                    fromAccount |-> absent, toAccount |-> absent]

TransferEntry(t) == [type |-> "transfer", id |-> t.id, date |-> t.date,
                     createdAt |-> t.createdAt, accountId |-> undefined,
                     fromAccountId |-> t.fromAccountId, toAccountId |-> t.toAccountId,
                     account |-> absent,
                     fromAccount |-> AccountName(t.fromAccountId),
                     toAccount |-> AccountName(t.toAccountId)]

\* income.slice(0, 5).map(...), expenses.slice(0, 5).map(...),
\* transfers.slice(0, 5).map(...)
\* mutation: every income row is taken, not the first five
IncomeEntriesAll(income) ==
    [i \in DOMAIN income |-> IncomeEntry(income[i])]

IncomeEntries(income) ==
    [i \in DOMAIN Slice(income, PerTypeLimit) |-> IncomeEntry(income[i])]

ExpenseEntries(expenses) ==
    [i \in DOMAIN Slice(expenses, PerTypeLimit) |-> ExpenseEntry(expenses[i])]

TransferEntries(transfers) ==
    [i \in DOMAIN Slice(transfers, PerTypeLimit) |-> TransferEntry(transfers[i])]

\* x goes after every element that is not older than it
InsertDesc(sorted, x) ==
    LET k == Cardinality({ i \in DOMAIN sorted : Timestamp(sorted[i]) >= Timestamp(x) })
    IN  SubSeq(sorted, 1, k) \o <<x>> \o SubSeq(sorted, k + 1, Len(sorted))

\* .sort((a, b) => new Date(b...).getTime() - new Date(a...).getTime()),
\* a stable sort, newest first
RECURSIVE SortDesc(_)
SortDesc(s) ==
    IF s = <<>> THEN <<>>
    ELSE InsertDesc(SortDesc(SubSeq(s, 1, Len(s) - 1)), s[Len(s)])

\* mutation: the merged list is not sorted
RecentTransactionsUnsorted(income, expenses, transfers) ==
    Slice(IncomeEntries(income) \o ExpenseEntries(expenses) \o TransferEntries(transfers),
          RecentLimit)

\* the body of the answer, from the three lists the store returned
RecentTransactions(income, expenses, transfers) ==
    Slice(SortDesc(IncomeEntries(income) \o ExpenseEntries(expenses)
                   \o TransferEntries(transfers)),
          RecentLimit)

GetRecentTransactions(p) ==
    /\ \A q \in Procs : ~InFlight(q)
    /\ \E income \in GetTransactions(incomeTransactions),
          expenses \in GetTransactions(expenseTransactions),
          transfers \in GetTransactions(transferTransactions) :
          reply' = [kind |-> "feed",
                    body |-> RecentTransactions(income, expenses, transfers)]
    /\ UNCHANGED <<ledgerVars, obligationVars, req, remaining, pre, now>>

\* `${value}` in a template literal
TemplateString(value) == IF value = absent THEN "undefined" ELSE value

\* the account line the dashboard shows for a feed entry
AccountLine(transaction) ==
    IF transaction.type = "transfer"
    THEN <<TemplateString(transaction.fromAccount), " -> ",
           TemplateString(transaction.toAccount)>>
    ELSE <<transaction.account>>

---------------------------------------------------------------------------
(* A store that already holds records when the server starts *)

\* the clock value at which the j-th stored record of table k (0, 1, 2) was
\* inserted: the tables were filled in turn, within one clock value per
\* round (spread = 0), at a clock value of its own (spread = 1), or the
\* last two rounds within one clock value (spread = 2); or one table after
\* the other, the income table last (spread = 3)
StoredAt(k, j, spread) ==
    IF spread = 3 THEN j + (2 - k) * MaxStored
    ELSE IF spread = 2 THEN 3 * Min(j, MaxStored - 1)
    ELSE 3 * j + spread * k

\* stored records name account 3 and, every other one, an id with no account
StoredAccount(j) == IF j % 2 = 0 THEN Len(DefaultAccounts) + 1 ELSE 3

StoredIncome(n, spread) ==
    [j \in 1..n |-> [amount |-> 400000, accountId |-> StoredAccount(j), date |-> Today,
                     source |-> "salary", createdAt |-> StoredAt(0, j, spread)]]

StoredExpenses(n, spread) ==
    [j \in 1..n |-> [amount |-> 400000, accountId |-> StoredAccount(j), date |-> Today,
                     category |-> "food", createdAt |-> StoredAt(1, j, spread)]]

StoredTransfers(n, spread) ==
    [j \in 1..n |-> [amount |-> 400000, fromAccountId |-> StoredAccount(j),
                     toAccountId |-> 4, date |-> Today,
                     createdAt |-> StoredAt(2, j, spread)]]

RECURSIVE SumAmountsOf(_)
SumAmountsOf(s) == IF s = <<>> THEN 0 ELSE Head(s).amount + SumAmountsOf(Tail(s))

\* what the recorded transactions have added to account id
Applied(id, income, expenses, transfers) ==
      SumAmountsOf(SelectSeq(income, LAMBDA t : t.accountId = id))
    - SumAmountsOf(SelectSeq(expenses, LAMBDA t : t.accountId = id))
    + SumAmountsOf(SelectSeq(transfers, LAMBDA t : t.toAccountId = id))
    - SumAmountsOf(SelectSeq(transfers, LAMBDA t : t.fromAccountId = id))

\* the demo accounts after the stored transactions ran one at a time
StoredAccounts(income, expenses, transfers) ==
    [i \in 1..Len(DefaultAccounts) |->
        [balance |-> DefaultAccounts[i] + Applied(i, income, expenses, transfers)]]

\* the clock when the server starts, later than every stored record
StartClock == 3 * MaxStored + 3

InitFeed ==
    \E ni \in {0, 4, MaxStored}, ne \in {0, MaxStored}, nt \in {0, MaxStored},
       spread \in {0, 1, 2, 3} :
        /\ incomeTransactions = StoredIncome(ni, spread)
        /\ expenseTransactions = StoredExpenses(ne, spread)
        /\ transferTransactions = StoredTransfers(nt, spread)
        /\ accounts = StoredAccounts(incomeTransactions, expenseTransactions,
                                     transferTransactions)
        /\ missingRef = (ni + ne + nt > 0)
        /\ receivables = <<>>
        /\ payables = <<>>
        /\ req = [p \in Procs |-> IdleReq]
        /\ remaining = MaxFeedRequests
        /\ initialBalance = DefaultAccounts
        /\ pre = [p \in Procs |-> Balances]
        /\ now = StartClock
        /\ reply = NoReply

\* the store's clock advances
Tick ==
    /\ now < StartClock + MaxTicks
    /\ now' = now + 1
    /\ UNCHANGED <<ledgerVars, obligationVars, req, remaining, pre, reply>>

FeedAccountIds == {3, Len(DefaultAccounts) + 1}

NextFeed ==
    \/ PostIncomeWith(1, {400000}, FeedAccountIds, {Today}, {"salary"})
    \/ CreateIncomeGetAccount(1)
    \/ CreateIncomeUpdate(1)
    \/ PostExpenseWith(1, {400000}, FeedAccountIds, {Today}, {"food"})
    \/ CreateExpenseGetAccount(1)
    \/ CreateExpenseUpdate(1)
    \/ PostTransferWith(1, {400000}, FeedAccountIds, {Today})
    \/ CreateTransferGetFromAccount(1)
    \/ CreateTransferGetToAccount(1)
    \/ CreateTransferUpdateFrom(1)
    \/ CreateTransferUpdateTo(1)
    \/ Tick
    \/ GetRecentTransactions(1)

SpecFeed == InitFeed /\ [][NextFeed]_vars

---------------------------------------------------------------------------
(* Records by month: the dashboard summary and the expenses page *)

\* a date of the month before Today's
LastMonthDate == <<"2", "0", "2", "6", "-", "1", "0", "-", "3", "0">>

MonthDates == {Today, LastMonthDate}

\* new Date().toISOString().slice(0, 7)
CurrentMonth == SubSeq(Today, 1, 7)

\* lib/utils getCurrentMonth: the current month as YYYY-MM
getCurrentMonth == SubSeq(Today, 1, 7)

\* the :month path parameter
MonthInputs ==
    { CurrentMonth,
      <<"2", "0", "2", "6", "-", "1", "0">>,
      <<"2", "0", "2", "6", "-", "1", "_">>,
      <<"%", "-", "3", "0">>,
      <<"2", "0", "2", "6", "-", "1", "1", "-", "0", "4", "T">> }

\* SQL LIKE: % matches any run of characters, _ any one character, and a
\* backslash makes the next character literal
RECURSIVE Like(_, _)
Like(s, pattern) ==
    IF pattern = <<>> THEN s = <<>>
    ELSE IF Head(pattern) = "%"
         THEN Like(s, Tail(pattern)) \/ (s # <<>> /\ Like(Tail(s), pattern))
    ELSE IF Head(pattern) = "_"
         THEN s # <<>> /\ Like(Tail(s), Tail(pattern))
    ELSE IF Head(pattern) = "\\" /\ Len(pattern) >= 2
         THEN /\ s # <<>>
              /\ Head(s) = pattern[2]
              /\ Like(Tail(s), SubSeq(pattern, 3, Len(pattern)))
    ELSE /\ s # <<>>
         /\ Head(s) = Head(pattern)
         /\ Like(Tail(s), Tail(pattern))

Reverse(s) == [i \in DOMAIN s |-> s[Len(s) + 1 - i]]

Rotate(s, k) == SubSeq(s, k + 1, Len(s)) \o SubSeq(s, 1, k)

\* a SELECT without ORDER BY returns its rows in an order the store
\* chooses: here the insertion order, forwards or backwards, or read from
\* the middle row on
RowOrders(rows) == { rows, Reverse(rows), Rotate(rows, Len(rows) \div 2) }

\* storage.getIncomeByMonth / getExpensesByMonth:
\* where(like(date, `${month}%`))
GetByMonth(table, month) ==
    RowOrders(SelectSeq(WithId(table), LAMBDA t : Like(t.date, month \o <<"%">>)))

\* reduce((sum, x) => sum + parseFloat(x.amount), 0)
RECURSIVE SumParsed(_)
SumParsed(rows) ==
    IF rows = <<>> THEN 0 ELSE SumParsed(SubSeq(rows, 1, Len(rows) - 1))
                                + ParseFloat(rows[Len(rows)].amount)

RECURSIVE SumBalances(_)
SumBalances(rows) ==
    IF rows = <<>> THEN 0 ELSE SumBalances(SubSeq(rows, 1, Len(rows) - 1))
                                + ParseFloat(rows[Len(rows)].balance)

\* mutation: net income adds the expenses
SummaryNetAdds(monthlyIncome, monthlyExpenses) ==
    LET totalIncome == SumParsed(monthlyIncome)
        totalExpenses == SumParsed(monthlyExpenses)
        totalBalance == SumBalances(accounts)
    IN  [kind |-> "summary",
         monthlyIncome |-> ToFixed2(totalIncome),
         monthlyExpenses |-> ToFixed2(totalExpenses),
         netIncome |-> ToFixed2(totalIncome + totalExpenses),
         totalBalance |-> ToFixed2(totalBalance)]

\* the body of the summary, from the rows the store returned
Summary(monthlyIncome, monthlyExpenses) ==
    LET totalIncome == SumParsed(monthlyIncome)
        totalExpenses == SumParsed(monthlyExpenses)
        totalBalance == SumBalances(accounts)
    IN  [kind |-> "summary",
         monthlyIncome |-> ToFixed2(totalIncome),
         monthlyExpenses |-> ToFixed2(totalExpenses),
         netIncome |-> ToFixed2(totalIncome - totalExpenses),
         totalBalance |-> ToFixed2(totalBalance)]

\* GET /api/dashboard/summary
GetSummary(p) ==
    /\ \A q \in Procs : ~InFlight(q)
    /\ \E monthlyIncome \in GetByMonth(incomeTransactions, CurrentMonth),
          monthlyExpenses \in GetByMonth(expenseTransactions, CurrentMonth) :
          reply' = Summary(monthlyIncome, monthlyExpenses)
    /\ UNCHANGED <<ledgerVars, obligationVars, req, remaining, pre, now>>

\* GET /api/expenses/month/:month
GetExpensesByMonth(p) ==
    /\ \A q \in Procs : ~InFlight(q)
    /\ \E month \in MonthInputs :
        \E expenses \in GetByMonth(expenseTransactions, month) :
          reply' = [kind |-> "expensesByMonth", month |-> month, body |-> expenses]
    /\ UNCHANGED <<ledgerVars, obligationVars, req, remaining, pre, now>>

---------------------------------------------------------------------------
(* The expenses page: category breakdown of the current month *)

\* .slice(0, 5)
TopCategories == 5

\* the reduce callback: acc[category] += parseFloat(expense.amount), a new
\* key starting at 0 and going after the keys already there
AddToCategory(acc, expense) ==
    IF \E i \in DOMAIN acc : acc[i].category = expense.category
    THEN [i \in DOMAIN acc |->
            IF acc[i].category = expense.category
            THEN [acc[i] EXCEPT !.sum = @ + ParseFloat(expense.amount)]
            ELSE acc[i]]
    ELSE Append(acc, [category |-> expense.category,
                      sum |-> 0 + ParseFloat(expense.amount)])

\* Object.entries(monthlyExpenses.reduce(...))
RECURSIVE CategoryBreakdown(_)
CategoryBreakdown(monthlyExpenses) ==
    IF monthlyExpenses = <<>> THEN <<>>
    ELSE AddToCategory(CategoryBreakdown(SubSeq(monthlyExpenses, 1, Len(monthlyExpenses) - 1)),
                       monthlyExpenses[Len(monthlyExpenses)])

\* x goes after every entry whose sum is not smaller
InsertBySum(sorted, x) ==
    LET k == Cardinality({ i \in DOMAIN sorted : sorted[i].sum >= x.sum })
    IN  SubSeq(sorted, 1, k) \o <<x>> \o SubSeq(sorted, k + 1, Len(sorted))

\* .sort(([, a], [, b]) => b - a), a stable sort, largest first
RECURSIVE SortBySum(_)
SortBySum(entries) ==
    IF entries = <<>> THEN <<>>
    ELSE InsertBySum(SortBySum(SubSeq(entries, 1, Len(entries) - 1)), entries[Len(entries)])

\* mutation: the entries are cut to five before they are sorted
SortedCategoriesCutFirst(monthlyExpenses) ==
    SortBySum(Slice(CategoryBreakdown(monthlyExpenses), TopCategories))

SortedCategories(monthlyExpenses) ==
    Slice(SortBySum(CategoryBreakdown(monthlyExpenses)), TopCategories)

\* the expenses page fetches /api/expenses/month/<current month> and
\* renders the breakdown
ExpensesPage(p) ==
    /\ \A q \in Procs : ~InFlight(q)
    /\ \E monthlyExpenses \in GetByMonth(expenseTransactions, getCurrentMonth) :
          reply' = [kind |-> "breakdown", body |-> SortedCategories(monthlyExpenses)]
    /\ UNCHANGED <<ledgerVars, obligationVars, req, remaining, pre, now>>

---------------------------------------------------------------------------
(* A store that already holds dated records when the server starts *)

\* source text, // salary, freelance, business, investment, rental, other
IncomeSources == <<"salary", "freelance", "business", "investment", "rental", "other">>

\* category text, // food, utilities, ... , other
ExpenseCategories ==
    <<"food", "utilities", "transportation", "entertainment", "shopping",
      "healthcare", "education", "housing", "insurance", "other">>

\* every fourth stored record is of last month
StoredDate(j) == IF j % 4 = 0 THEN LastMonthDate ELSE Today

\* stored amounts: all equal (pattern 0) or differing, with some equal sums
StoredAmount(j, pattern) == IF pattern = 0 THEN 2550 ELSE 1000 * (((j * 3) % 5) + 1)

\* stored expenses go through seven categories in turn
StoredDatedExpenses(n, pattern) ==
    [j \in 1..n |-> [amount |-> StoredAmount(j, pattern), accountId |-> 3,
                     date |-> StoredDate(j),
                     category |-> ExpenseCategories[((j - 1) % 7) + 1],
                     createdAt |-> j]]

StoredDatedIncome(n, pattern) ==
    [j \in 1..n |-> [amount |-> 400000 + StoredAmount(j, pattern), accountId |-> 3,
                     date |-> StoredDate(j + 2),
                     source |-> IncomeSources[((j - 1) % 6) + 1],
                     createdAt |-> j]]

InitMonth ==
    \E ni \in {0, 3}, ne \in {0, 6, MaxStoredExpenses}, pattern \in {0, 1} :
        /\ incomeTransactions = StoredDatedIncome(ni, pattern)
        /\ expenseTransactions = StoredDatedExpenses(ne, pattern)
        /\ transferTransactions = <<>>
        /\ accounts = StoredAccounts(incomeTransactions, expenseTransactions,
                                     transferTransactions)
        /\ missingRef = FALSE
        /\ receivables = <<>>
        /\ payables = <<>>
        /\ req = [p \in Procs |-> IdleReq]
        /\ remaining = MaxMonthRequests
        /\ initialBalance = DefaultAccounts
        /\ pre = [p \in Procs |-> Balances]
        /\ now = MaxStoredExpenses + 2
        /\ reply = NoReply

NextMonth ==
    \/ PostIncomeWith(1, {2550, 400000}, {3}, MonthDates, {"salary"})
    \/ CreateIncomeGetAccount(1)
    \/ CreateIncomeUpdate(1)
    \/ PostExpenseWith(1, {2550, 400000}, {3}, MonthDates, {"food", "other"})
    \/ CreateExpenseGetAccount(1)
    \/ CreateExpenseUpdate(1)
    \/ GetSummary(1)
    \/ GetExpensesByMonth(1)
    \/ ExpensesPage(1)

SpecMonth == InitMonth /\ [][NextMonth]_vars

---------------------------------------------------------------------------
(* Requests with any body: account numbers, balances, sources, categories *)

\* account numbers a request body may carry, as character sequences
FormAccountNumbers ==
    { <<"1", "2", "3", "4">>,
      <<"1", "2", "-", "3">>,
      <<"1", "-", "2", " ", "3", "4">>,
      <<"a", "b", "1", "2">>,
      <<"*", "*", "*", "*", "1", "2">>,
      <<"-", "-", "-", "-">> }

\* initial balances a request body may carry, in cents, or none
FormBalances == {undefined, 10000}

\* sources and categories a request body may carry
FormSources == {"salary", "gift"}

FormCategories == {"food", "bribes"}

NextForms ==
    \/ PostAccountWith(1, FormAccountNumbers, FormBalances)
    \/ PostIncomeWith(1, {-2000, 2550}, {3}, {Today}, FormSources)
    \/ CreateIncomeGetAccount(1)
    \/ CreateIncomeUpdate(1)
    \/ PostExpenseWith(1, {-2000, 2550}, {3}, {Today}, FormCategories)
    \/ CreateExpenseGetAccount(1)
    \/ CreateExpenseUpdate(1)

InitForms ==
    /\ Init!1 /\ Init!2 /\ Init!3 /\ Init!4 /\ Init!5 /\ Init!6 /\ Init!7
    /\ remaining = MaxFormRequests
    /\ Init!9 /\ Init!10 /\ Init!11 /\ Init!12 /\ Init!13

SpecForms == InitForms /\ [][NextForms]_vars

---------------------------------------------------------------------------
(* Store calls that fail: a rejected promise inside createIncome,
   createExpense or createTransfer reaches the route's catch block *)

LedgerKinds == {"income", "expense", "transfer"}

\* bodies that pass the schema, and for a transfer the same-account check
ValidLedgerRequests ==
    { [IdleReq EXCEPT !.kind = kind, !.amount = 400000,
                      !.accountId = accountId, !.toAccountId = toAccountId] :
        kind \in LedgerKinds, accountId \in {3}, toAccountId \in {0, 4} }

\* mutation: the failed INSERT is swallowed and the method goes on
PostInsertFailsGoesOn(p) ==
    \E r \in ValidLedgerRequests :
        /\ (r.kind = "transfer") = (r.toAccountId # 0)
        /\ CanStart(p)
        /\ Begin(p, [r EXCEPT !.pc = IF r.kind = "transfer" THEN "getFromAccount"
                                                              ELSE "getAccount"])
        /\ UNCHANGED <<ledgerVars, obligationVars>>

\* the INSERT of the record throws: catch (error) { res.status(400) }
PostInsertFails(p) ==
    \E r \in ValidLedgerRequests :
        /\ (r.kind = "transfer") = (r.toAccountId # 0)
        /\ CanStart(p)
        /\ Begin(p, Done([r EXCEPT !.threw = "insert"], 400))
        /\ UNCHANGED <<ledgerVars, obligationVars>>

\* mutation: the catch block restores the balances the request found
StoreCallFailsRollsBack(p) ==
    /\ InFlight(p)
    /\ req[p].kind \in LedgerKinds
    /\ req' = [req EXCEPT ![p] = Done([@ EXCEPT !.threw = req[p].pc], 400)]
    /\ accounts' = [i \in DOMAIN accounts |->
                      IF i \in DOMAIN pre[p] THEN [accounts[i] EXCEPT !.balance = pre[p][i]]
                      ELSE accounts[i]]
    /\ UNCHANGED <<incomeTransactions, expenseTransactions, transferTransactions,
                   initialBalance, missingRef, obligationVars, remaining, pre, now, reply>>

\* the store call the method is waiting on (getAccount or
\* updateAccountBalance) throws: the method stops there, nothing is undone,
\* and the route's catch block answers 400
StoreCallFails(p) ==
    /\ InFlight(p)
    /\ req[p].kind \in LedgerKinds
    /\ req' = [req EXCEPT ![p] = Done([@ EXCEPT !.threw = req[p].pc], 400)]
    /\ UNCHANGED <<ledgerVars, obligationVars, remaining, pre, now, reply>>

InitFail ==
    /\ Init!1 /\ Init!2 /\ Init!3 /\ Init!4 /\ Init!5 /\ Init!6 /\ Init!7
    /\ remaining = MaxFailRequests
    /\ Init!9 /\ Init!10 /\ Init!11 /\ Init!12 /\ Init!13

\* requests to the ledger routes, one at a time, over a store that may fail
NextFail ==
    \/ LedgerStep(1)
    \/ PostInsertFails(1)
    \/ StoreCallFails(1)

SpecFail == InitFail /\ [][NextFail]_vars

---------------------------------------------------------------------------
(* Every route: the account reads, and the routes the server does not have *)

\* GET /api/accounts
GetAccounts(p) ==
    /\ \A q \in Procs : ~InFlight(q)
    /\ \E rows \in RowOrders(WithId(accounts)) :
          reply' = [kind |-> "accounts", body |-> rows]
    /\ UNCHANGED <<ledgerVars, obligationVars, req, remaining, pre, now>>

\* GET /api/accounts/:id
GetAccountById(p) ==
    /\ \A q \in Procs : ~InFlight(q)
    /\ \E id \in AccountIdInputs :
          reply' = IF GetAccount(id) = undefined
                   THEN [kind |-> "account", id |-> id, status |-> 404]
                   ELSE [kind |-> "account", id |-> id, status |-> 200,
                         body |-> WithId(accounts)[id]]
    /\ UNCHANGED <<ledgerVars, obligationVars, req, remaining, pre, now>>

\* DELETE /api/accounts/:id, which the accounts page sends: the server has
\* no such route, so the request falls through to the handler that serves
\* the client's page
DeleteAccount(p) ==
    /\ \A q \in Procs : ~InFlight(q)
    /\ \E id \in AccountIdInputs : reply' = [kind |-> "page", id |-> id]
    /\ UNCHANGED <<ledgerVars, obligationVars, req, remaining, pre, now>>

InitAll ==
    /\ Init!1 /\ Init!2 /\ Init!3 /\ Init!4 /\ Init!5 /\ Init!6 /\ Init!7
    /\ remaining = MaxAllRequests
    /\ Init!9 /\ Init!10 /\ Init!11 /\ Init!12 /\ Init!13

NextAll ==
    \/ PostAccount(1)
    \/ PostIncomeWith(1, {400000}, FeedAccountIds, {Today}, {"salary"})
    \/ CreateIncomeGetAccount(1)
    \/ CreateIncomeUpdate(1)
    \/ PostExpenseWith(1, {400000}, FeedAccountIds, {Today}, {"food"})
    \/ CreateExpenseGetAccount(1)
    \/ CreateExpenseUpdate(1)
    \/ PostTransferWith(1, {400000}, {3, 4}, {Today})
    \/ CreateTransferGetFromAccount(1)
    \/ CreateTransferGetToAccount(1)
    \/ CreateTransferUpdateFrom(1)
    \/ CreateTransferUpdateTo(1)
    \/ PostReceivable(1)
    \/ PatchReceivableStatus(1)
    \/ PostPayable(1)
    \/ PatchPayableStatus(1)
    \/ GetAccounts(1)
    \/ GetAccountById(1)
    \/ GetRecentTransactions(1)
    \/ GetSummary(1)
    \/ GetExpensesByMonth(1)
    \/ DeleteAccount(1)

SpecAll == InitAll /\ [][NextAll]_vars

---------------------------------------------------------------------------
(* Startup: DatabaseStorage's constructor starts initializeDefaultAccounts
   and does not wait for it; slot 2 holds that task *)

SeedTask == [IdleReq EXCEPT !.kind = "seed", !.pc = "check"]

\* the server process starts (again): the handlers and the seeding task of
\* the process before it are gone, and a new seeding task begins; pre[2]
\* keeps the balances the store held at that moment
Startup ==
    /\ remaining > 0
    /\ remaining' = remaining - 1
    /\ req' = [req EXCEPT ![1] = IdleReq, ![2] = SeedTask]
    /\ pre' = [pre EXCEPT ![2] = Balances]
    /\ reply' = NoReply
    /\ UNCHANGED <<ledgerVars, obligationVars, now>>

\* existingAccounts = await db.select().from(accounts).limit(1);
\* if (existingAccounts.length === 0) { ... }
SeedCheck ==
    /\ req[2].kind = "seed" /\ req[2].pc = "check"
    /\ req' = [req EXCEPT ![2] =
                 IF Len(accounts) = 0
                 THEN [@ EXCEPT !.pc = "insert", !.id = 1]
                 ELSE [@ EXCEPT !.pc = "done"]]
    /\ UNCHANGED <<ledgerVars, obligationVars, remaining, pre, now, reply>>

\* for (const account of defaultAccounts) await db.insert(accounts).values(account)
SeedInsert ==
    /\ req[2].kind = "seed" /\ req[2].pc = "insert"
    /\ accounts' = Append(accounts, [balance |-> DefaultAccounts[req[2].id]])
    /\ initialBalance' = Append(initialBalance, DefaultAccounts[req[2].id])
    /\ req' = [req EXCEPT ![2] =
                 IF req[2].id = Len(DefaultAccounts)
                 THEN [@ EXCEPT !.pc = "done"]
                 ELSE [@ EXCEPT !.id = @ + 1]]
    /\ UNCHANGED <<incomeTransactions, expenseTransactions, transferTransactions,
                   missingRef, obligationVars, remaining, pre, now, reply>>

\* a store call of the task throws: catch (error) { console.error(...) }
SeedFails ==
    /\ req[2].kind = "seed" /\ req[2].pc \in {"check", "insert"}
    /\ req' = [req EXCEPT ![2] = [@ EXCEPT !.pc = "done", !.threw = req[2].pc]]
    /\ UNCHANGED <<ledgerVars, obligationVars, remaining, pre, now, reply>>

\* the first startup, on an empty store
InitSeed ==
    /\ accounts = <<>>
    /\ Init!2 /\ Init!3 /\ Init!4 /\ Init!5 /\ Init!6
    /\ req = [p \in Procs |-> IF p = 2 THEN SeedTask ELSE IdleReq]
    /\ remaining = MaxSeedEvents
    /\ initialBalance = <<>>
    /\ pre = [p \in Procs |-> <<>>]
    /\ Init!11 /\ Init!12 /\ Init!13

NextSeed ==
    \/ Startup
    \/ SeedCheck
    \/ SeedInsert
    \/ SeedFails
    \/ PostAccountWith(1, {<<"1", "2", "3", "4">>}, {undefined})

SpecSeed == InitSeed /\ [][NextSeed]_vars

---------------------------------------------------------------------------
(* Properties *)

RECURSIVE SumAmounts(_)
SumAmounts(s) == IF s = <<>> THEN 0 ELSE Head(s).amount + SumAmounts(Tail(s))

RECURSIVE Total(_)
Total(s) == IF s = <<>> THEN 0 ELSE Head(s) + Total(Tail(s))

IncomeOf(id) == SumAmounts(SelectSeq(incomeTransactions, LAMBDA t : t.accountId = id))
ExpenseOf(id) == SumAmounts(SelectSeq(expenseTransactions, LAMBDA t : t.accountId = id))
TransfersIn(id) == SumAmounts(SelectSeq(transferTransactions, LAMBDA t : t.toAccountId = id))
TransfersOut(id) == SumAmounts(SelectSeq(transferTransactions, LAMBDA t : t.fromAccountId = id))

\* no request is in flight
Quiet == \A p \in Procs : ~InFlight(p)

\* slot p finished a request that passed validation
Finished(p, kind) ==
    /\ req[p].pc = "done"
    /\ req[p].kind = kind
    /\ req[p].amount # undefined

\* this step is the arrival of a new request in slot p
Started(p) == req'[p].n # req[p].n

\* C1: with requests running one at a time and every referenced account
\* existing, between requests each account's balance is its initial balance
\* plus its persisted incomes and incoming transfers minus its persisted
\* expenses and outgoing transfers (in cents).
C1_BalanceIsInitialPlusSignedSum ==
    (Quiet /\ ~missingRef) =>
        \A id \in DOMAIN accounts :
            accounts[id].balance =
                initialBalance[id] + IncomeOf(id) + TransfersIn(id)
                                   - ExpenseOf(id) - TransfersOut(id)

C1_Witness ==
    /\ Quiet /\ ~missingRef
    /\ Len(incomeTransactions) > 0
    /\ Len(expenseTransactions) > 0
    /\ Len(transferTransactions) > 0
    /\ \E id \in DOMAIN accounts : accounts[id].balance # initialBalance[id]

\* C2: two interleaved createExpense calls on one existing account both
\* persist their record, and the balance ends at the initial balance minus
\* both amounts or minus only one of them (one adjustment lost).
C2_TwoExpensesOutcomes ==
    \A X \in DOMAIN accounts :
        ( /\ Finished(1, "expense") /\ Finished(2, "expense")
          /\ req[1].accountId = X /\ req[2].accountId = X
          /\ Len(expenseTransactions) = 2
          /\ Len(incomeTransactions) = 0 /\ Len(transferTransactions) = 0 )
        =>
        LET a1 == req[1].amount
            a2 == req[2].amount
            B0 == initialBalance[X]
        IN
        /\ req[1].res = 201 /\ req[2].res = 201
        /\ {<<expenseTransactions[1].amount, expenseTransactions[1].accountId>>,
            <<expenseTransactions[2].amount, expenseTransactions[2].accountId>>}
             = {<<a1, X>>, <<a2, X>>}
        /\ accounts[X].balance \in {B0 - a1 - a2, B0 - a1, B0 - a2}

\* both records are persisted and the balance reflects only one amount
C2_Witness ==
    \E X \in DOMAIN accounts :
        /\ Finished(1, "expense") /\ Finished(2, "expense")
        /\ req[1].accountId = X /\ req[2].accountId = X
        /\ Len(expenseTransactions) = 2
        /\ Len(incomeTransactions) = 0 /\ Len(transferTransactions) = 0
        /\ req[1].amount = 400000 /\ req[2].amount = 400000
        /\ accounts[X].balance = initialBalance[X] - 400000

\* C3: a createIncome of amount A on an existing account X, run alone,
\* leaves X exactly A higher and every other balance unchanged.
C3_IncomeRaisesOnlyItsAccount ==
    \A p \in Procs :
        (Finished(p, "income") /\ req[p].accountId \in DOMAIN pre[p]) =>
            /\ req[p].res = 201
            /\ Balances = [pre[p] EXCEPT ![req[p].accountId] = @ + req[p].amount]

C3_Witness ==
    \E p \in Procs :
        /\ Finished(p, "income") /\ req[p].accountId \in DOMAIN pre[p]
        /\ req[p].amount = 400000
        /\ Balances[req[p].accountId] = pre[p][req[p].accountId] + 400000

\* C4: a createExpense of amount A on an existing account X, run alone,
\* leaves X exactly A lower whatever its balance (it may go negative) and
\* every other balance unchanged.
C4_ExpenseLowersOnlyItsAccount ==
    \A p \in Procs :
        (Finished(p, "expense") /\ req[p].accountId \in DOMAIN pre[p]) =>
            /\ req[p].res = 201
            /\ Balances = [pre[p] EXCEPT ![req[p].accountId] = @ - req[p].amount]

\* the expense exceeded the balance and the balance went negative
C4_Witness ==
    \E p \in Procs :
        /\ Finished(p, "expense") /\ req[p].accountId \in DOMAIN pre[p]
        /\ req[p].amount > pre[p][req[p].accountId]
        /\ Balances[req[p].accountId] < 0

\* C5: a createTransfer of amount A between two different existing accounts,
\* run alone, leaves the source A lower, the destination A higher, every
\* other balance unchanged and the sum of all balances the same.
C5_TransferMovesAmount ==
    \A p \in Procs :
        ( /\ Finished(p, "transfer")
          /\ req[p].accountId # req[p].toAccountId
          /\ req[p].accountId \in DOMAIN pre[p]
          /\ req[p].toAccountId \in DOMAIN pre[p] ) =>
            /\ req[p].res = 201
            /\ Balances = [pre[p] EXCEPT ![req[p].accountId] = @ - req[p].amount,
                                         ![req[p].toAccountId] = @ + req[p].amount]
            /\ Total(Balances) = Total(pre[p])

C5_Witness ==
    \E p \in Procs :
        /\ Finished(p, "transfer")
        /\ req[p].accountId = 3 /\ req[p].toAccountId = 4
        /\ req[p].amount = 400000
        /\ Balances[3] = pre[p][3] - 400000
        /\ Balances[4] = pre[p][4] + 400000

\* C6: a transfer request with fromAccountId = toAccountId is answered 400
\* at once, without entering createTransfer: no transfer record is persisted
\* and no balance changes.
C6_SameAccountTransferRejected ==
    [][\A p \in Procs :
         ( /\ Started(p)
           /\ req'[p].kind = "transfer"
           /\ req'[p].accountId = req'[p].toAccountId ) =>
             /\ req'[p].pc = "done"
             /\ req'[p].res = 400
             /\ transferTransactions' = transferTransactions
             /\ accounts' = accounts]_vars

C6_Witness ==
    \E p \in Procs :
        /\ Finished(p, "transfer")
        /\ req[p].accountId = req[p].toAccountId
        /\ req[p].accountId \in DOMAIN accounts
        /\ req[p].res = 400

\* C7: a createIncome or createExpense naming an account id that does not
\* exist persists its record, answers 201 and changes no balance.
C7_MissingAccountStillRecorded ==
    \A p \in Procs :
        /\ (Finished(p, "income") /\ req[p].accountId \notin DOMAIN accounts) =>
              /\ req[p].res = 201
              /\ Balances = pre[p]
              /\ Len(incomeTransactions) > 0
              /\ incomeTransactions[Len(incomeTransactions)].amount = req[p].amount
              /\ incomeTransactions[Len(incomeTransactions)].accountId = req[p].accountId
        /\ (Finished(p, "expense") /\ req[p].accountId \notin DOMAIN accounts) =>
              /\ req[p].res = 201
              /\ Balances = pre[p]
              /\ Len(expenseTransactions) > 0
              /\ expenseTransactions[Len(expenseTransactions)].amount = req[p].amount
              /\ expenseTransactions[Len(expenseTransactions)].accountId = req[p].accountId

C7_Witness ==
    \E p \in Procs :
        /\ Finished(p, "income")
        /\ req[p].accountId \notin DOMAIN accounts
        /\ req[p].res = 201
        /\ Len(incomeTransactions) > 0

\* C8: a status update whose status is not pending, paid or overdue (or is
\* missing) is answered 400 and leaves every receivable and payable as it was.
C8_InvalidStatusRejected ==
    [][\A p \in Procs :
         ( /\ Started(p)
           /\ req'[p].kind \in {"receivableStatus", "payableStatus"}
           /\ req'[p].status \notin {"pending", "paid", "overdue"} ) =>
             /\ req'[p].res = 400
             /\ receivables' = receivables
             /\ payables' = payables]_vars

C8_Witness ==
    /\ req[1].pc = "done"
    /\ req[1].kind = "receivableStatus"
    /\ req[1].status = "bogus"
    /\ req[1].id \in DOMAIN receivables
    /\ req[1].res = 400

\* C9: a status update with a valid status naming an id that does not exist
\* is answered 404 (not the 400 of a validation failure), creates no record
\* and changes none.
C9_UnknownIdNotFound ==
    [][\A p \in Procs :
         /\ ( /\ Started(p)
              /\ req'[p].kind = "receivableStatus"
              /\ req'[p].status \in {"pending", "paid", "overdue"}
              /\ req'[p].id \notin DOMAIN receivables ) =>
                /\ req'[p].res = 404
                /\ receivables' = receivables
                /\ payables' = payables
         /\ ( /\ Started(p)
              /\ req'[p].kind = "payableStatus"
              /\ req'[p].status \in {"pending", "paid", "overdue"}
              /\ req'[p].id \notin DOMAIN payables ) =>
                /\ req'[p].res = 404
                /\ receivables' = receivables
                /\ payables' = payables]_vars

C9_Witness ==
    /\ req[1].pc = "done"
    /\ req[1].kind = "payableStatus"
    /\ req[1].status = "paid"
    /\ req[1].id \notin DOMAIN payables
    /\ Len(payables) > 0
    /\ req[1].res = 404

\* C10: in every reachable state the status of each receivable and payable
\* is one of pending, paid, overdue; no create request stores another value.
C10_StatusAlwaysValid ==
    /\ \A i \in DOMAIN receivables : receivables[i].status \in {"pending", "paid", "overdue"}
    /\ \A i \in DOMAIN payables : payables[i].status \in {"pending", "paid", "overdue"}

\* C11: creating a receivable or payable, or updating its status, accepted
\* or rejected, leaves every account balance and every income, expense and
\* transfer record unchanged.
C11_ObligationsLeaveLedger ==
    [][\A p \in Procs :
         ( /\ Started(p)
           /\ req'[p].kind \in {"receivable", "payable",
                                 "receivableStatus", "payableStatus"} ) =>
             /\ accounts' = accounts
             /\ incomeTransactions' = incomeTransactions
             /\ expenseTransactions' = expenseTransactions
             /\ transferTransactions' = transferTransactions]_vars

\* a receivable was created in a store whose ledger already holds a record
\* and a moved balance
C11_Witness ==
    /\ req[1].pc = "done"
    /\ req[1].kind = "receivable"
    /\ req[1].res = 201
    /\ Len(receivables) = 1
    /\ Len(incomeTransactions) = 1
    /\ accounts[3].balance # initialBalance[3]

NonIncreasing(feed) ==
    \A i, j \in DOMAIN feed : i < j => Timestamp(feed[i]) >= Timestamp(feed[j])

\* C12: whatever the store holds, the recent-activity feed has at most 10
\* entries and they are in non-increasing order of timestamp.
C12_FeedBoundedAndSorted ==
    reply.kind = "feed" =>
        /\ Len(reply.body) <= 10
        /\ NonIncreasing(reply.body)

\* more than 10 candidates, cut to 10, with equal and with differing timestamps
C12_Witness ==
    /\ reply.kind = "feed"
    /\ Len(reply.body) = 10
    /\ Len(incomeTransactions) + Len(expenseTransactions) + Len(transferTransactions) > 10
    /\ \E i \in 1..9 : Timestamp(reply.body[i]) = Timestamp(reply.body[i + 1])
    /\ \E i \in 1..9 : Timestamp(reply.body[i]) > Timestamp(reply.body[i + 1])
    /\ \E i \in 1..9 : reply.body[i].type # reply.body[i + 1].type

UnknownAccountLabel == "unknown account"

\* the name an entry should carry for account id
LabelledName(id) == IF id \in DOMAIN accounts THEN NameColumn(id) ELSE UnknownAccountLabel

\* C13: a feed entry whose account id (accountId, or fromAccountId /
\* toAccountId for a transfer) does not resolve to an existing account
\* carries the "unknown account" label as its account name, never an absent
\* value, and the dashboard shows that label.
C13_UnresolvedAccountLabelled ==
    reply.kind = "feed" =>
        \A i \in DOMAIN reply.body :
            LET t == reply.body[i]
            IN  IF t.type = "transfer"
                THEN /\ t.fromAccount = LabelledName(t.fromAccountId)
                     /\ t.toAccount = LabelledName(t.toAccountId)
                     /\ AccountLine(t) = <<LabelledName(t.fromAccountId), " -> ",
                                           LabelledName(t.toAccountId)>>
                ELSE /\ t.account = LabelledName(t.accountId)
                     /\ AccountLine(t) = <<LabelledName(t.accountId)>>

RECURSIVE IsPrefix(_, _)
IsPrefix(m, s) ==
    IF m = <<>> THEN TRUE
    ELSE s # <<>> /\ Head(m) = Head(s) /\ IsPrefix(Tail(m), Tail(s))

\* the sum, in cents, of the amounts of the records of a table dated in month m
SumOfMonth(table, m) == SumAmounts(SelectSeq(table, LAMBDA t : IsPrefix(m, t.date)))

\* C14: the dashboard summary reports monthlyIncome as the sum of the
\* amounts of the income records dated in the current month,
\* monthlyExpenses as the same sum over expense records, netIncome as
\* monthlyIncome minus monthlyExpenses, and totalBalance as the sum of the
\* current balances of all accounts whatever the dates of the transactions.
C14_SummaryOfCurrentMonth ==
    reply.kind = "summary" =>
        /\ reply.monthlyIncome = SumOfMonth(incomeTransactions, CurrentMonth)
        /\ reply.monthlyExpenses = SumOfMonth(expenseTransactions, CurrentMonth)
        /\ reply.netIncome = reply.monthlyIncome - reply.monthlyExpenses
        /\ reply.totalBalance = Total(Balances)

\* a summary over records of this month and of another month, in both tables
C14_Witness ==
    /\ reply.kind = "summary"
    /\ reply.monthlyIncome > 0
    /\ reply.monthlyExpenses > 0
    /\ reply.monthlyIncome < SumAmounts(incomeTransactions)
    /\ reply.monthlyExpenses < SumAmounts(expenseTransactions)
    /\ reply.netIncome = reply.monthlyIncome - reply.monthlyExpenses
    /\ req[1].pc = "done" /\ req[1].res = 201

\* the ids of the records of a table whose date begins with m
IdsOfMonth(table, m) == { i \in DOMAIN table : IsPrefix(m, table[i].date) }

\* C15: for every filter string m, the by-month read returns exactly the
\* records whose date string begins with m: every record whose date has
\* prefix m, and no record whose date does not literally begin with m.
C15_ByMonthIsLiteralPrefix ==
    reply.kind = "expensesByMonth" =>
        { reply.body[i].id : i \in DOMAIN reply.body }
            = IdsOfMonth(expenseTransactions, reply.month)

\* the sum, in cents, of the current month's expenses of a category
CategorySum(c) ==
    SumAmounts(SelectSeq(expenseTransactions,
                         LAMBDA t : t.category = c /\ IsPrefix(getCurrentMonth, t.date)))

\* the categories with an expense in the current month
MonthCategories ==
    { expenseTransactions[i].category :
        i \in { i \in DOMAIN expenseTransactions :
                  IsPrefix(getCurrentMonth, expenseTransactions[i].date) } }

\* C16: the category breakdown of the current month's expenses has at most
\* 5 entries, each entry's amount is the sum of that category's expenses in
\* the current month, entries are in non-increasing order of summed amount,
\* and every category left out has a sum no larger than every category
\* returned.
C16_BreakdownTopFive ==
    reply.kind = "breakdown" =>
        LET b == reply.body
            shown == { b[i].category : i \in DOMAIN b }
        IN  /\ Len(b) <= 5
            /\ \A i \in DOMAIN b :
                   /\ b[i].category \in MonthCategories
                   /\ b[i].sum = ParseFloat(CategorySum(b[i].category))
            /\ \A i, j \in DOMAIN b : i < j => b[i].sum >= b[j].sum
            /\ \A c \in MonthCategories \ shown :
                   \A i \in DOMAIN b : CategorySum(c) <= CategorySum(b[i].category)
            /\ Cardinality(shown) = Len(b)
            /\ Len(b) = IF Cardinality(MonthCategories) < 5
                         THEN Cardinality(MonthCategories) ELSE 5

\* six categories this month with differing sums, one left out, and an
\* expense of another month in a category shown
C16_Witness ==
    /\ reply.kind = "breakdown"
    /\ Len(reply.body) = 5
    /\ Cardinality(MonthCategories) > 5
    /\ reply.body[1].sum > reply.body[5].sum
    /\ \E i \in DOMAIN expenseTransactions :
          /\ ~IsPrefix(getCurrentMonth, expenseTransactions[i].date)
          /\ expenseTransactions[i].category = reply.body[1].category
    /\ \E i, j \in DOMAIN expenseTransactions :
          /\ i # j
          /\ expenseTransactions[i].category = expenseTransactions[j].category
          /\ IsPrefix(getCurrentMonth, expenseTransactions[i].date)
          /\ IsPrefix(getCurrentMonth, expenseTransactions[j].date)

\* C17: a create request for an income, expense or transfer whose amount is
\* not a valid non-negative decimal (for example a negative amount) is
\* rejected as a validation error: no record is persisted and no balance is
\* adjusted.
C17_InvalidAmountRejected ==
    /\ \A i \in DOMAIN incomeTransactions : incomeTransactions[i].amount >= 0
    /\ \A i \in DOMAIN expenseTransactions : expenseTransactions[i].amount >= 0
    /\ \A i \in DOMAIN transferTransactions : transferTransactions[i].amount >= 0
    /\ ( /\ req[1].pc = "done"
         /\ req[1].kind \in LedgerKinds
         /\ (req[1].amount < 0 \/ req[1].amount = undefined) ) =>
            /\ req[1].res = 400
            /\ Balances = pre[1]

Range(s) == { s[i] : i \in DOMAIN s }

\* C18: a create request for an income whose source is outside the
\* six-value enumeration, or for an expense whose category is outside the
\* ten-value enumeration, is rejected as a validation error and no record
\* is persisted.
C18_UnknownSourceOrCategoryRejected ==
    /\ \A i \in DOMAIN incomeTransactions :
          incomeTransactions[i].source \in Range(IncomeSources)
    /\ \A i \in DOMAIN expenseTransactions :
          expenseTransactions[i].category \in Range(ExpenseCategories)

Digits == {"0", "1", "2", "3", "4", "5", "6", "7", "8", "9"}

\* the digit characters of an account number
DigitCount(accountNumber) == Len(SelectSeq(accountNumber, LAMBDA c : c \in Digits))

\* C19: an account-creation request is rejected, and no account is stored,
\* whenever the account number has fewer than 4 digit characters once
\* whitespace and hyphens are removed; a request whose account number has
\* at least 4 digit characters after that stripping is accepted.
C19_FourDigitsRequired ==
    (req[1].pc = "done" /\ req[1].kind = "account") =>
        IF DigitCount(cleanAccountNumber(req[1].accountNumber)) < 4
        THEN req[1].res = 400 /\ Len(accounts) = Len(pre[1])
        ELSE req[1].res = 201 /\ Len(accounts) = Len(pre[1]) + 1

\* C20: an account created through the account-creation operation is
\* stored with the caller-supplied initial balance when one is given, and
\* with balance 0.00 when none is given.
C20_InitialBalanceStored ==
    (req[1].pc = "done" /\ req[1].kind = "account" /\ req[1].res = 201) =>
        accounts[req[1].id].balance
            = (IF req[1].amount = undefined THEN 0 ELSE req[1].amount)

\* the last record of the table of request p's kind is the one p asked for
RecordOf(p) ==
    LET table == CASE req[p].kind = "income" -> incomeTransactions
                   [] req[p].kind = "expense" -> expenseTransactions
                   [] OTHER -> transferTransactions
    IN  /\ RecordCount = req[p].records + 1
        /\ Len(table) > 0
        /\ table[Len(table)].amount = req[p].amount
        /\ IF req[p].kind = "transfer"
           THEN /\ table[Len(table)].fromAccountId = req[p].accountId
                /\ table[Len(table)].toAccountId = req[p].toAccountId
           ELSE table[Len(table)].accountId = req[p].accountId

\* C21: whenever a create request for an income, expense or transfer is
\* answered with the validation-failure response (400), no transaction
\* record has been persisted and no account balance has changed, including
\* when the store fails part-way through the request.
C21_RejectedLeavesNoTrace ==
    ( /\ req[1].pc = "done"
      /\ req[1].kind \in LedgerKinds
      /\ req[1].res = 400 ) =>
        /\ RecordCount = req[1].records
        /\ Balances = pre[1]

\* C22: if an account's balance already includes the effect of an income,
\* expense or transfer request, then that request's transaction record is
\* already persisted: the record insert comes before every balance write.
C22_RecordBeforeBalance ==
    (req[1].kind \in LedgerKinds /\ Balances # pre[1]) => RecordOf(1)

\* a balance written while the request is still in flight, and one left
\* behind by a request whose later store call failed
C22_Witness ==
    /\ req[1].pc = "done"
    /\ req[1].kind = "transfer"
    /\ req[1].threw = "updateTo"
    /\ Balances # pre[1]
    /\ RecordOf(1)

\* C23: if the store fails on the credit write of a transfer after the
\* debit write succeeded, nothing is rolled back: the final state has the
\* transfer record persisted, the from-account lowered by the amount and
\* the to-account unchanged.
C23_FailedCreditKeepsDebit ==
    ( /\ req[1].pc = "done"
      /\ req[1].kind = "transfer"
      /\ req[1].threw = "updateTo"
      /\ req[1].accountId \in DOMAIN pre[1] ) =>
        /\ RecordOf(1)
        /\ Balances = [pre[1] EXCEPT ![req[1].accountId] = @ - req[1].amount]
        /\ Balances[req[1].toAccountId] = pre[1][req[1].toAccountId]

C23_Witness ==
    /\ req[1].pc = "done"
    /\ req[1].kind = "transfer"
    /\ req[1].threw = "updateTo"
    /\ req[1].accountId = 3 /\ req[1].toAccountId = 4
    /\ Balances[3] = pre[1][3] - 400000
    /\ Balances[4] = pre[1][4]
    /\ Len(transferTransactions) = 1

\* C24: during a single transfer of a positive amount between two existing
\* distinct accounts with no other request in flight, the debit is written
\* before the credit: in every intermediate state the sum of all balances
\* is the pre-transfer total or that total minus the amount, never more.
C24_DebitBeforeCredit ==
    ( /\ req[1].kind = "transfer"
      /\ req[1].pc # "idle"
      /\ req[1].amount # undefined /\ req[1].amount > 0
      /\ req[1].accountId # req[1].toAccountId
      /\ req[1].accountId \in DOMAIN pre[1]
      /\ req[1].toAccountId \in DOMAIN pre[1] ) =>
        /\ Total(Balances) \in {Total(pre[1]), Total(pre[1]) - req[1].amount}
        /\ Balances[req[1].toAccountId] # pre[1][req[1].toAccountId] =>
              Balances[req[1].accountId] = pre[1][req[1].accountId] - req[1].amount

\* the state between the two writes
C24_Witness ==
    /\ req[1].kind = "transfer"
    /\ req[1].pc = "updateTo"
    /\ req[1].amount = 400000
    /\ req[1].accountId = 3 /\ req[1].toAccountId = 4
    /\ Total(Balances) = Total(pre[1]) - 400000

\* C25: a store failure that occurs while handling a create request for an
\* income, expense or transfer is reported to the caller as a kind of error
\* distinct from a validation error (which is status 400 with the route's
\* "Invalid ... data" message).
C25_StoreFailureDistinct ==
    ( /\ req[1].pc = "done"
      /\ req[1].kind \in LedgerKinds
      /\ req[1].threw # "none" ) =>
        req[1].res # 400

\* C30: createTransfer where exactly one of the two referenced accounts
\* exists persists the transfer record, adjusts the existing account by the
\* amount and reports success, so the sum of all balances changes by the
\* amount (lower when only the from-account exists, higher when only the
\* to-account exists).
C30_OneSidedTransfer ==
    /\ ( /\ Finished(1, "transfer")
         /\ req[1].accountId \in DOMAIN pre[1]
         /\ req[1].toAccountId \notin DOMAIN accounts ) =>
            /\ req[1].res = 201
            /\ RecordOf(1)
            /\ Balances = [pre[1] EXCEPT ![req[1].accountId] = @ - req[1].amount]
            /\ Total(Balances) = Total(pre[1]) - req[1].amount
    /\ ( /\ Finished(1, "transfer")
         /\ req[1].accountId \notin DOMAIN accounts
         /\ req[1].toAccountId \in DOMAIN pre[1] ) =>
            /\ req[1].res = 201
            /\ RecordOf(1)
            /\ Balances = [pre[1] EXCEPT ![req[1].toAccountId] = @ + req[1].amount]
            /\ Total(Balances) = Total(pre[1]) + req[1].amount

\* both one-sided cases have run
C30_Witness ==
    /\ Finished(1, "transfer")
    /\ req[1].res = 201
    /\ req[1].amount = 400000
    /\ req[1].accountId = 3
    /\ req[1].toAccountId \notin DOMAIN accounts
    /\ Total(Balances) = Total(pre[1]) - 400000
    /\ Len(transferTransactions) = 2
    /\ transferTransactions[1].fromAccountId \notin DOMAIN accounts
    /\ transferTransactions[1].toAccountId = 4

\* the statuses of the records that exist before and after a step are equal
StatusesKept(table, tableAfter) ==
    \A i \in DOMAIN table : i \in DOMAIN tableAfter /\ tableAfter[i].status = table[i].status

\* C26: for every existing receivable or payable and every pair (s, s') of
\* the statuses pending, paid, overdue, a status update to s' issued while
\* the record has status s succeeds and leaves the record with status s'
\* (paid is not terminal), and the status changes by no other operation.
C26_AnyTransitionAllowed ==
    [][/\ ( /\ Started(1)
            /\ req'[1].kind = "receivableStatus"
            /\ req'[1].status \in {"pending", "paid", "overdue"}
            /\ req'[1].id \in DOMAIN receivables
            /\ receivables[req'[1].id].status \in {"pending", "paid", "overdue"} ) =>
              /\ req'[1].res = 200
              /\ receivables' = [receivables EXCEPT ![req'[1].id].status = req'[1].status]
              /\ payables' = payables
       /\ ( /\ Started(1)
            /\ req'[1].kind = "payableStatus"
            /\ req'[1].status \in {"pending", "paid", "overdue"}
            /\ req'[1].id \in DOMAIN payables
            /\ payables[req'[1].id].status \in {"pending", "paid", "overdue"} ) =>
              /\ req'[1].res = 200
              /\ payables' = [payables EXCEPT ![req'[1].id].status = req'[1].status]
              /\ receivables' = receivables
       /\ ~StatusesKept(receivables, receivables') =>
              Started(1) /\ req'[1].kind = "receivableStatus" /\ req'[1].res = 200
       /\ ~StatusesKept(payables, payables') =>
              Started(1) /\ req'[1].kind = "payableStatus" /\ req'[1].res = 200]_vars

\* a paid receivable was set back to pending
C26_Witness ==
    /\ req[1].pc = "done"
    /\ req[1].kind = "receivableStatus"
    /\ req[1].was = "paid"
    /\ req[1].status = "pending"
    /\ req[1].res = 200
    /\ receivables[req[1].id].status = "pending"

\* this step is a balance write of createIncome, createExpense or
\* createTransfer to account i
BalanceWrite(i) ==
    /\ req[1].kind \in LedgerKinds
    /\ \/ req[1].pc \in {"update", "updateFrom"} /\ i = req[1].accountId
       \/ req[1].pc = "updateTo" /\ i = req[1].toAccountId

\* C27: no server operation removes an account, and the balance of an
\* existing account is changed only by createIncome, createExpense and
\* createTransfer: the list, get, by-month, summary and recent-activity
\* reads and account creation leave every existing account record unchanged.
C27_AccountsKept ==
    [][/\ \A i \in DOMAIN accounts :
            /\ i \in DOMAIN accounts'
            /\ accounts'[i] # accounts[i] => BalanceWrite(i)
       /\ (reply' # reply /\ reply'.kind # "none") => accounts' = accounts
       /\ (Started(1) /\ req'[1].kind = "account") =>
            \A i \in DOMAIN accounts : accounts'[i] = accounts[i]]_vars

\* an account was created, a balance was written, and the reads answered
C27_Witness ==
    /\ reply.kind = "accounts"
    /\ Len(reply.body) = Len(DefaultAccounts) + 1
    /\ Len(accounts) = Len(DefaultAccounts) + 1
    /\ accounts[3].balance # initialBalance[3]

\* the rows that hold demo account i (the demo balances differ from each
\* other and from the 0.00 of a created account)
DemoRows(i) == { k \in DOMAIN accounts : accounts[k].balance = DefaultAccounts[i] }

\* C28: startup seeding inserts the five demo accounts only when the account
\* store is empty; once the store holds any account, every later startup
\* inserts nothing, so across any number of startups and account creations
\* each demo account is inserted at most once and seeding never adds
\* accounts to a store that already holds one (an account other than those
\* this seeding has inserted).
C28_SeedOnlyEmptyStore ==
    /\ \A i \in DOMAIN DefaultAccounts : Cardinality(DemoRows(i)) <= 1
    /\ (req[2].kind = "seed" /\ Len(pre[2]) > 0) =>
          /\ req[2].pc # "insert"
          /\ \A i \in DOMAIN DefaultAccounts :
                \A k \in DemoRows(i) : k <= Len(pre[2])
    /\ (req[2].kind = "seed" /\ req[2].pc = "insert") =>
          Len(accounts) = req[2].id - 1
\* the table a feed entry of a type comes from
TableOf(type) ==
    CASE type = "income" -> incomeTransactions
      [] type = "expense" -> expenseTransactions
      [] OTHER -> transferTransactions

FeedTypes == {"income", "expense", "transfer"}

\* record id of a type is shown in the feed
InFeed(type, id) ==
    \E i \in DOMAIN reply.body : reply.body[i].type = type /\ reply.body[i].id = id

\* C29: the recent-activity feed is drawn only from the 5 most recently
\* created records of each type, so it never holds more than 5 entries of
\* one type; when more than 5 of the 10 most recently created transactions
\* are of one type, the feed omits some of them and shows older records of
\* other types instead.
C29_FivePerType ==
    reply.kind = "feed" =>
        /\ \A type \in FeedTypes :
              Cardinality({ i \in DOMAIN reply.body : reply.body[i].type = type }) <= 5
        /\ \A i \in DOMAIN reply.body :
              LET e == reply.body[i]
                  table == TableOf(e.type)
              IN  /\ e.id \in DOMAIN table
                  /\ table[e.id].createdAt = e.createdAt
                  /\ Cardinality({ k \in DOMAIN table :
                                     table[k].createdAt > e.createdAt }) < 5
        /\ \A i, j \in DOMAIN reply.body :
              (i # j /\ reply.body[i].type = reply.body[j].type) =>
                  reply.body[i].id # reply.body[j].id

\* six incomes are the newest records; the feed shows five of them and an
\* expense older than the income it leaves out
C29_Witness ==
    /\ reply.kind = "feed"
    /\ Len(reply.body) = 10
    /\ Cardinality({ i \in DOMAIN reply.body : reply.body[i].type = "income" }) = 5
    /\ \E k \in DOMAIN incomeTransactions :
          /\ ~InFeed("income", k)
          /\ \E i \in DOMAIN reply.body :
                /\ reply.body[i].type = "expense"
                /\ reply.body[i].createdAt < incomeTransactions[k].createdAt

====
